---- MODULE Spec2Model ----
(***************************************************************************)
(* A model of create_pip_requirement.py: the environment-name resolver     *)
(* get_env_name, the listing filter of create_pip_requirement and the run  *)
(* of create_pip_requirement against a small file system.                  *)
(*                                                                         *)
(* Text is modelled character by character: a Python str is a sequence of  *)
(* one-character strings, so that splitting, joining, prefix tests and     *)
(* substring tests are computed as the code computes them.                 *)
(***************************************************************************)
EXTENDS Integers, Sequences, FiniteSets, TLC

VARIABLES
    pc,                \* position of the running call
    VIRTUAL_ENV,       \* os.environ.get("VIRTUAL_ENV"): a text, or None
    CONDA_DEFAULT_ENV, \* os.environ.get("CONDA_DEFAULT_ENV"): a text, or None
    version_info,      \* sys.version_info: <<major, minor>>
    remove_versions,   \* the argument of create_pip_requirement
    requirements_dir,  \* what is at <script dir>/requirements: "absent", "dir", "file"
    files,             \* the files of the requirements directory: name -> content
    env_name,          \* local: the value get_env_name returned
    filepath,          \* local: the name of the target file
    result,            \* local: the CompletedProcess of the pip child
    filtered_output,   \* local: the processed listing
    buffer,            \* local: the text f.write took that the file has not got yet
    printed,           \* the line the run printed, or None
    before,            \* history: the files when the run started
    dir_before,        \* history: requirements_dir when the run started
    prev,              \* history: the previous completed run (inputs, target content)
    at                 \* history: the position at which the run was interrupted

vars == <<pc, VIRTUAL_ENV, CONDA_DEFAULT_ENV, version_info, remove_versions,
          requirements_dir, files, env_name, filepath, result, filtered_output,
          buffer, printed, before, dir_before, prev, at>>

(***************************************************************************)
(* Bounds of the model.                                                    *)
(***************************************************************************)
\* longest environment-variable value drawn when get_env_name is checked alone
MaxEnvLen == 3
\* longest raw listing drawn when the listing filter is checked alone
MaxListingLen == 6

(***************************************************************************)
(* Text.                                                                   *)
(***************************************************************************)
\* Python's None, distinct from every text (a text holds one-character strings)
None == <<"None">>

NL == "\n"

\* all texts over the alphabet A of length at most n
TextsUpTo(A, n) == UNION {[1..k -> A] : k \in 0..n}

Last(s) == s[Len(s)]

Front(s) == SubSeq(s, 1, Len(s) - 1)

\* str.startswith
StartsWith(s, prefix) ==
    /\ Len(prefix) <= Len(s)
    /\ SubSeq(s, 1, Len(prefix)) = prefix

\* `sub in s` for str
Contains(s, sub) ==
    \E i \in 0..(Len(s) - Len(sub)) : SubSeq(s, i + 1, i + Len(sub)) = sub

\* the least index at which sep occurs in s, 0 when it does not occur
FindFirst(s, sep) ==
    LET hits == {i \in 1..(Len(s) - Len(sep) + 1) : SubSeq(s, i, i + Len(sep) - 1) = sep}
    IN  IF hits = {} THEN 0 ELSE CHOOSE i \in hits : \A j \in hits : i <= j

\* str.split(sep): the pieces of s between the occurrences of sep, left to right
RECURSIVE Split(_, _)
Split(s, sep) ==
    LET i == FindFirst(s, sep)
    IN  IF i = 0 THEN <<s>>
        ELSE <<SubSeq(s, 1, i - 1)>> \o Split(SubSeq(s, i + Len(sep), Len(s)), sep)

\* str.splitlines(): the lines of s; a final line break opens no further line,
\* and the empty text has no line
SplitLines(s) ==
    IF s = <<>> THEN <<>>
    ELSE IF Last(s) = NL THEN Split(Front(s), <<NL>>)
    ELSE Split(s, <<NL>>)

\* sep.join(parts)
RECURSIVE Join(_, _)
Join(sep, parts) ==
    IF parts = <<>> THEN <<>>
    ELSE IF Len(parts) = 1 THEN parts[1]
    ELSE parts[1] \o sep \o Join(sep, Tail(parts))

\* the decimal digits of a natural number, as str(n) and "%d" % n give them
Digit(d) == <<"0", "1", "2", "3", "4", "5", "6", "7", "8", "9">>[d + 1]

RECURSIVE Dec(_)
Dec(n) == IF n < 10 THEN <<Digit(n)>> ELSE Dec(n \div 10) \o <<Digit(n % 10)>>

(***************************************************************************)
(* get_env_name.                                                           *)
(***************************************************************************)
\* bool(x) of an os.environ.get result: None and the empty str are false
Truthy(x) == x # None /\ x # <<>>

\* the parts pathlib keeps of a POSIX path, without the root: the pieces
\* between separators, the empty ones and the "." ones dropped
PathParts(p) ==
    SelectSeq(Split(p, <<"/">>), LAMBDA c : c # <<>> /\ c # <<".">>)

\* the path itself, as without .name (a mutant)
PathWhole(p) == p

\* Path(p).name: the last part, the empty str when the path has no part
PathName(p) ==
    LET parts == PathParts(p)
    IN  IF parts = <<>> THEN <<>> ELSE Last(parts)

GLOBAL == <<"g", "l", "o", "b", "a", "l">>

\* get_env_name with the conda branch left out (a mutant)
get_env_name_no_conda(venv_path, conda_env) ==
    IF Truthy(venv_path) THEN PathName(venv_path) ELSE GLOBAL

get_env_name(venv_path, conda_env) ==
    IF Truthy(venv_path) THEN PathName(venv_path)
    ELSE IF Truthy(conda_env) THEN conda_env
    ELSE GLOBAL

(***************************************************************************)
(* The listing filter of create_pip_requirement.                           *)
(***************************************************************************)
EDITABLE == <<"-", "e">>

VERSION_SEP == <<"=", "=">>

\* the text of the lines of stdout that do not start with "-e"
FilterEditable(stdout) ==
    Join(<<NL>>, SelectSeq(SplitLines(stdout), LAMBDA line : ~StartsWith(line, EDITABLE)))

\* line.split("==")[0]
BeforeVersion(line) == Split(line, VERSION_SEP)[1]

\* the text of the lines of text, each cut before its first "=="
StripVersions(text) ==
    LET lines == SplitLines(text)
    IN  Join(<<NL>>, [i \in 1..Len(lines) |-> BeforeVersion(lines[i])])

\* filtered_output as create_pip_requirement computes it from result.stdout
ProcessListing(stdout, strip) ==
    IF strip THEN StripVersions(FilterEditable(stdout)) ELSE FilterEditable(stdout)

(***************************************************************************)
(* The target file and the file system.                                    *)
(***************************************************************************)
PYTHON_INFIX ==
    <<"-", "p", "y", "t", "h", "o", "n", "-">>

TXT_SUFFIX ==
    <<".", "t", "x", "t">>

\* f"{sys.version_info.major}.{sys.version_info.minor}"
VersionText(info) == Dec(info[1]) \o <<".">> \o Dec(info[2])

\* f"{env_name}-python-{version}.txt"
FileName(name, version) == name \o PYTHON_INFIX \o version \o TXT_SUFFIX

\* the content of the file called name, as a set: empty when there is no such file
FileAt(fs, name) == IF name \in DOMAIN fs THEN {fs[name]} ELSE {}

\* mkdir that creates nothing (a mutant)
MkdirNothing(state) == state

\* requirements_dir.mkdir(parents=True, exist_ok=True) where no file is in the way
Mkdir(state) == "dir"

\* open(filepath, "a"): an existing file keeps its content (a mutant)
OpenAppend(fs, name) ==
    [n \in DOMAIN fs \cup {name} |-> IF n \in DOMAIN fs THEN fs[n] ELSE <<>>]

\* open(filepath, "w"): the file is created or truncated
OpenWrite(fs, name) ==
    [n \in DOMAIN fs \cup {name} |-> IF n = name THEN <<>> ELSE fs[n]]

\* a write of data at the end of the file called name
WriteAtEnd(fs, name, data) == [fs EXCEPT ![name] = @ \o data]

\* a close that drops what is still buffered (a mutant)
CloseDropsBuffer(fs, name, data) == fs

\* leaving the with block: what is still buffered reaches the file
CloseFlush(fs, name, data) == WriteAtEnd(fs, name, data)

\* f.write(result.stdout): the raw listing is written (a mutant)
WrittenRaw(stdout, filtered) == stdout

\* the argument of f.write
WrittenText(stdout, filtered) == filtered

\* check=True that never raises, as check=False (a mutant)
NeverRaises(returncode) == FALSE

\* subprocess.run(..., check=True) raises CalledProcessError
Raises(returncode) == returncode # 0

(***************************************************************************)
(* What the run prints.                                                    *)
(***************************************************************************)
FAILED_PREFIX ==
    <<"F", "a", "i", "l", "e", "d", " ", "t", "o", " ", "g", "e", "n", "e",
      "r", "a", "t", "e", " ", "r", "e", "q", "u", "i", "r", "e", "m", "e",
      "n", "t", "s", ":">>

SAVED_PREFIX ==
    <<"R", "e", "q", "u", "i", "r", "e", "m", "e", "n", "t", "s", " ", "s",
      "a", "v", "e", "d", " ", "t", "o", " ">>

REQUIREMENTS ==
    <<"r", "e", "q", "u", "i", "r", "e", "m", "e", "n", "t", "s", "/">>

CMD_PREFIX ==
    <<"C", "o", "m", "m", "a", "n", "d", " ", "'">>

\* the list [sys.executable, "-m", "pip", "freeze", "-l"] as %s formats it,
\* with python standing for sys.executable
PIP_ARGS ==
    <<"[", "'", "p", "y", "t", "h", "o", "n", "'", ",", " ", "'", "-", "m",
      "'", ",", " ", "'", "p", "i", "p", "'", ",", " ", "'", "f", "r", "e",
      "e", "z", "e", "'", ",", " ", "'", "-", "l", "'", "]">>

EXIT_INFIX ==
    <<"'", " ", "r", "e", "t", "u", "r", "n", "e", "d", " ", "n", "o", "n",
      "-", "z", "e", "r", "o", " ", "e", "x", "i", "t", " ", "s", "t", "a",
      "t", "u", "s", " ">>

\* print("Failed to generate requirements:", e): print puts a space between
\* its arguments and formats the CalledProcessError e with str(e), which names
\* the command and the exit status of a child that exited with a positive status
FailureDiagnostic(res) ==
    FAILED_PREFIX \o <<" ">> \o CMD_PREFIX \o PIP_ARGS \o EXIT_INFIX
        \o Dec(res.returncode) \o <<".">>

\* print(f"Requirements saved to {filepath}"), the script directory left out
SavedMessage(name) == SAVED_PREFIX \o REQUIREMENTS \o name

(***************************************************************************)
(* The inputs of a run.                                                    *)
(***************************************************************************)
\* the (VIRTUAL_ENV, CONDA_DEFAULT_ENV) pairs the runs draw from
RunEnvironments ==
    { <<None, None>>,
      <<<<"/", "v", "/", "a", "/">>, <<"b">>>> }

\* the interpreters the runs draw from
RunVersions == { <<3, 11>>, <<3, 12>> }

NoResult == [returncode |-> 0, stdout |-> None, stderr |-> None]

\* what the pip child may do: exit status, standard output, standard error
PipResults ==
    { [returncode |-> 0, stdout |-> <<>>, stderr |-> <<>>],
      [returncode |-> 0,
       stdout |-> <<"-", "e", " ", "x", NL, "a", "=", "=", "1", NL, "b", "=", "=", "2", NL>>,
       stderr |-> <<>>],
      [returncode |-> 1, stdout |-> <<"a", "=", "=", "1", NL>>, stderr |-> <<"E", "!">>] }

\* what a file of the requirements directory holds before the first run
PriorContent == <<"o", "l", "d", "=", "=", "0", NL, "z">>

\* the files of the requirements directory before the first run
PriorFiles(info) ==
    { <<>> } \cup { FileName(GLOBAL, VersionText(info)) :> PriorContent }

NoPrev == [valid |-> FALSE]

\* the inputs of the current run
Inputs == <<VIRTUAL_ENV, CONDA_DEFAULT_ENV, version_info, remove_versions, result>>

Finished == {"saved", "failed"}

Ended == Finished \cup {"crashed", "interrupted"}

Running == {"resolve", "mkdir", "pip", "filter", "open", "write", "close", "print", "except"}

(***************************************************************************)
(* The run of create_pip_requirement.                                      *)
(***************************************************************************)
Init ==
    /\ pc = "idle"
    /\ VIRTUAL_ENV = None
    /\ CONDA_DEFAULT_ENV = None
    /\ version_info \in RunVersions
    /\ remove_versions = TRUE
    /\ requirements_dir \in {"absent", "dir", "file"}
    /\ files \in (IF requirements_dir = "dir" THEN PriorFiles(version_info) ELSE { <<>> })
    /\ env_name = None
    /\ filepath = None
    /\ result = NoResult
    /\ filtered_output = None
    /\ buffer = <<>>
    /\ printed = None
    /\ before = files
    /\ dir_before = requirements_dir
    /\ prev = NoPrev
    /\ at = "none"

\* the script is started, for the first time or after an earlier run has
\* ended: the process gets its environment and the argument of the call
Start ==
    /\ pc \in {"idle"} \cup Ended
    /\ \E e \in RunEnvironments, strip \in BOOLEAN :
          /\ VIRTUAL_ENV' = e[1]
          /\ CONDA_DEFAULT_ENV' = e[2]
          /\ remove_versions' = strip
    /\ prev' = IF pc \in Finished
               THEN [valid |-> TRUE, inputs |-> Inputs, target |-> FileAt(files, filepath)]
               ELSE NoPrev
    /\ before' = files
    /\ dir_before' = requirements_dir
    /\ env_name' = None
    /\ filepath' = None
    /\ result' = NoResult
    /\ filtered_output' = None
    /\ buffer' = <<>>
    /\ printed' = None
    /\ at' = "none"
    /\ pc' = "resolve"
    /\ UNCHANGED <<version_info, requirements_dir, files>>

\* lines 18-19
Resolve ==
    /\ pc = "resolve"
    /\ env_name' = get_env_name(VIRTUAL_ENV, CONDA_DEFAULT_ENV)
    /\ pc' = "mkdir"
    /\ UNCHANGED <<VIRTUAL_ENV, CONDA_DEFAULT_ENV, version_info, remove_versions,
                   requirements_dir, files, filepath, result, filtered_output,
                   printed, buffer, before, dir_before, prev, at>>

\* lines 22-29: the directory exists, and the target is named
MakeDir ==
    /\ pc = "mkdir"
    /\ requirements_dir # "file"
    /\ requirements_dir' = Mkdir(requirements_dir)
    /\ filepath' = FileName(env_name, VersionText(version_info))
    /\ pc' = "pip"
    /\ UNCHANGED <<VIRTUAL_ENV, CONDA_DEFAULT_ENV, version_info, remove_versions,
                   files, env_name, result, filtered_output, printed, buffer, before, dir_before, prev, at>>

\* line 25 where a file called requirements is in the way: mkdir raises
\* FileExistsError, which nothing catches
MakeDirFails ==
    /\ pc = "mkdir"
    /\ requirements_dir = "file"
    /\ pc' = "crashed"
    /\ UNCHANGED <<VIRTUAL_ENV, CONDA_DEFAULT_ENV, version_info, remove_versions,
                   requirements_dir, files, env_name, filepath, result,
                   filtered_output, printed, buffer, before, dir_before, prev, at>>

\* lines 32-35: the child runs to its end; check=True raises on a non-zero status
RunPip ==
    /\ pc = "pip"
    /\ \E r \in PipResults :
          /\ result' = r
          /\ pc' = IF Raises(r.returncode) THEN "except" ELSE "filter"
    /\ UNCHANGED <<VIRTUAL_ENV, CONDA_DEFAULT_ENV, version_info, remove_versions,
                   requirements_dir, files, env_name, filepath, filtered_output,
                   printed, buffer, before, dir_before, prev, at>>

\* lines 38-48
Filter ==
    /\ pc = "filter"
    /\ filtered_output' = ProcessListing(result.stdout, remove_versions)
    /\ pc' = "open"
    /\ UNCHANGED <<VIRTUAL_ENV, CONDA_DEFAULT_ENV, version_info, remove_versions,
                   requirements_dir, files, env_name, filepath, result, printed,
                   buffer, before, dir_before, prev, at>>

\* line 51, entering the with block
OpenFile ==
    /\ pc = "open"
    /\ files' = OpenWrite(files, filepath)
    /\ pc' = "write"
    /\ UNCHANGED <<VIRTUAL_ENV, CONDA_DEFAULT_ENV, version_info, remove_versions,
                   requirements_dir, env_name, filepath, result, filtered_output,
                   printed, buffer, before, dir_before, prev, at>>

\* line 52: the text goes to the buffer of f, and the buffer may pass any
\* leading part of it on to the file
WriteFile ==
    /\ pc = "write"
    /\ LET text == WrittenText(result.stdout, filtered_output)
       IN  \E k \in 0..Len(text) :
              /\ files' = WriteAtEnd(files, filepath, SubSeq(text, 1, k))
              /\ buffer' = SubSeq(text, k + 1, Len(text))
    /\ pc' = "close"
    /\ UNCHANGED <<VIRTUAL_ENV, CONDA_DEFAULT_ENV, version_info, remove_versions,
                   requirements_dir, env_name, filepath, result, filtered_output,
                   printed, before, dir_before, prev, at>>

\* line 51, leaving the with block: the rest of the buffer is written
CloseFile ==
    /\ pc = "close"
    /\ files' = CloseFlush(files, filepath, buffer)
    /\ buffer' = <<>>
    /\ pc' = "print"
    /\ UNCHANGED <<VIRTUAL_ENV, CONDA_DEFAULT_ENV, version_info, remove_versions,
                   requirements_dir, env_name, filepath, result, filtered_output,
                   printed, before, dir_before, prev, at>>

\* line 54
PrintSaved ==
    /\ pc = "print"
    /\ printed' = SavedMessage(filepath)
    /\ pc' = "saved"
    /\ UNCHANGED <<VIRTUAL_ENV, CONDA_DEFAULT_ENV, version_info, remove_versions,
                   requirements_dir, files, env_name, filepath, result,
                   filtered_output, buffer, before, dir_before, prev, at>>

\* lines 55-56: the CalledProcessError is caught and printed
PrintFailed ==
    /\ pc = "except"
    /\ printed' = FailureDiagnostic(result)
    /\ pc' = "failed"
    /\ UNCHANGED <<VIRTUAL_ENV, CONDA_DEFAULT_ENV, version_info, remove_versions,
                   requirements_dir, files, env_name, filepath, result,
                   filtered_output, buffer, before, dir_before, prev, at>>

\* the process is stopped where it stands (a signal, a power cut): nothing
\* more of the run happens, and what is buffered is lost
Interrupt ==
    /\ pc \in Running
    /\ at' = pc
    /\ pc' = "interrupted"
    /\ UNCHANGED <<VIRTUAL_ENV, CONDA_DEFAULT_ENV, version_info, remove_versions,
                   requirements_dir, files, env_name, filepath, result,
                   filtered_output, buffer, printed, before, dir_before, prev>>

Next ==
    \/ Start
    \/ Resolve
    \/ MakeDir
    \/ MakeDirFails
    \/ RunPip
    \/ Filter
    \/ OpenFile
    \/ WriteFile
    \/ CloseFile
    \/ PrintSaved
    \/ PrintFailed
    \/ Interrupt

Spec == Init /\ [][Next]_vars

(***************************************************************************)
(* get_env_name alone, over every value of the two variables up to         *)
(* MaxEnvLen characters.                                                   *)
(***************************************************************************)
PathAlphabet == {"/", ".", "a"}

EnvValues == {None} \cup TextsUpTo(PathAlphabet, MaxEnvLen)

InitEnv ==
    /\ pc = "call"
    /\ VIRTUAL_ENV \in EnvValues
    /\ CONDA_DEFAULT_ENV \in EnvValues
    /\ version_info = <<3, 11>>
    /\ remove_versions = TRUE
    /\ requirements_dir = "absent"
    /\ files = <<>>
    /\ env_name = None
    /\ filepath = None
    /\ result = NoResult
    /\ filtered_output = None
    /\ buffer = <<>>
    /\ printed = None
    /\ before = <<>>
    /\ dir_before = "absent"
    /\ prev = NoPrev
    /\ at = "none"

\* env_name = get_env_name(), line 19
CallGetEnvName ==
    /\ pc = "call"
    /\ env_name' = get_env_name(VIRTUAL_ENV, CONDA_DEFAULT_ENV)
    /\ pc' = "returned"
    /\ UNCHANGED <<VIRTUAL_ENV, CONDA_DEFAULT_ENV, version_info, remove_versions,
                   requirements_dir, files, filepath, result, filtered_output,
                   buffer, printed, before, dir_before, prev, at>>

NextEnv == CallGetEnvName

SpecEnv == InitEnv /\ [][NextEnv]_vars

(***************************************************************************)
(* The listing filter alone, over every raw listing up to MaxListingLen    *)
(* characters.                                                             *)
(***************************************************************************)
ListingAlphabet == {"-", "e", "=", "a", NL}

InitFilter ==
    /\ pc = "call"
    /\ VIRTUAL_ENV = None
    /\ CONDA_DEFAULT_ENV = None
    /\ version_info = <<3, 11>>
    /\ remove_versions \in BOOLEAN
    /\ requirements_dir = "absent"
    /\ files = <<>>
    /\ env_name = None
    /\ filepath = None
    /\ result \in {[returncode |-> 0, stdout |-> s, stderr |-> <<>>] :
                     s \in TextsUpTo(ListingAlphabet, MaxListingLen)}
    /\ filtered_output = None
    /\ buffer = <<>>
    /\ printed = None
    /\ before = <<>>
    /\ dir_before = "absent"
    /\ prev = NoPrev
    /\ at = "none"

\* lines 38-48 on the standard output of a child that exited with status 0
CallFilter ==
    /\ pc = "call"
    /\ filtered_output' = ProcessListing(result.stdout, remove_versions)
    /\ pc' = "returned"
    /\ UNCHANGED <<VIRTUAL_ENV, CONDA_DEFAULT_ENV, version_info, remove_versions,
                   requirements_dir, files, env_name, filepath, result, buffer,
                   printed, before, dir_before, prev, at>>

NextFilter == CallFilter

SpecFilter == InitFilter /\ [][NextFilter]_vars

(***************************************************************************)
(* Properties of get_env_name, checked under SpecEnv.                      *)
(***************************************************************************)
\* p without its trailing separators and its trailing "." segments
RECURSIVE DropTrailing(_)
DropTrailing(p) ==
    IF p = <<>> THEN p
    ELSE IF Last(p) = "/" THEN DropTrailing(Front(p))
    ELSE IF Last(p) = "." /\ (Len(p) = 1 \/ p[Len(p) - 1] = "/") THEN DropTrailing(Front(p))
    ELSE p

\* the final segment of the path p: what follows the last separator once the
\* trailing separators and "." segments are set aside; empty when nothing is left
FinalSegment(p) ==
    LET q == DropTrailing(p)
        seps == {i \in 1..Len(q) : q[i] = "/"}
        k == IF seps = {} THEN 0 ELSE CHOOSE i \in seps : \A j \in seps : j <= i
    IN  SubSeq(q, k + 1, Len(q))

\* C2, as stated: whenever VIRTUAL_ENV is set, the empty string included,
\* get_env_name returns the final path segment of its value.
C2_AnySetValue ==
    (pc = "returned" /\ VIRTUAL_ENV # None) => env_name = FinalSegment(VIRTUAL_ENV)

\* C2, amended: whenever VIRTUAL_ENV is set to a non-empty value, whatever
\* CONDA_DEFAULT_ENV holds, get_env_name returns the final path segment of
\* that value (trailing separators and "." segments set aside, the empty
\* string for a path with no segment left, such as a root path).
C2_NonEmptyValue ==
    (pc = "returned" /\ VIRTUAL_ENV # None /\ VIRTUAL_ENV # <<>>)
        => env_name = FinalSegment(VIRTUAL_ENV)

\* C2's case: a value with a trailing separator, CONDA_DEFAULT_ENV set as well
C2_Witness ==
    /\ pc = "returned"
    /\ VIRTUAL_ENV = <<"/", "a", "/">>
    /\ CONDA_DEFAULT_ENV = <<".", ".">>
    /\ env_name = <<"a">>

\* C3, as stated: with VIRTUAL_ENV unset and CONDA_DEFAULT_ENV set, the empty
\* string included, get_env_name returns the value of CONDA_DEFAULT_ENV.
C3_AnySetValue ==
    (pc = "returned" /\ VIRTUAL_ENV = None /\ CONDA_DEFAULT_ENV # None)
        => env_name = CONDA_DEFAULT_ENV

\* C3, amended: with VIRTUAL_ENV unset and CONDA_DEFAULT_ENV set, get_env_name
\* returns the value of CONDA_DEFAULT_ENV verbatim when it is not empty, and
\* "global" when it is the empty string.
C3_NonEmptyValue ==
    (pc = "returned" /\ VIRTUAL_ENV = None /\ CONDA_DEFAULT_ENV # None)
        => env_name = (IF CONDA_DEFAULT_ENV = <<>> THEN GLOBAL ELSE CONDA_DEFAULT_ENV)

\* C3's case: a value that is returned as it is, not as the name of a path
C3_Witness ==
    /\ pc = "returned"
    /\ VIRTUAL_ENV = None
    /\ CONDA_DEFAULT_ENV = <<"/", "a", "/">>
    /\ env_name = <<"/", "a", "/">>

\* C4: get_env_name returns a non-empty string for every combination of the
\* two variables.
C4_NonEmpty ==
    pc = "returned" => Len(env_name) >= 1

(***************************************************************************)
(* Properties of the listing filter, checked under SpecFilter.             *)
(***************************************************************************)
\* the lines of the raw listing that do not begin with "-e", in their order,
\* each cut before its first "==" when strip holds
KeptLines(stdout, strip) ==
    LET kept == SelectSeq(SplitLines(stdout), LAMBDA line : ~StartsWith(line, EDITABLE))
    IN  [i \in 1..Len(kept) |-> IF strip THEN BeforeVersion(kept[i]) ELSE kept[i]]

\* C5: for every raw listing the processed output is made of exactly the lines
\* that do not begin with "-e", in the original order, each cut before its
\* first "==" when remove_versions is true and left whole when it is false.
C5_ExactlyKeptLines ==
    pc = "returned"
        => filtered_output = Join(<<NL>>, KeptLines(result.stdout, remove_versions))

(***************************************************************************)
(* Properties of the run, checked under Spec.                              *)
(***************************************************************************)
\* the positions of a run that has made its pip call
PipCalled == {"filter", "open", "write", "close", "print", "except", "saved", "failed"}

\* C1: when the pip child exits with a non-zero status, the run leaves the
\* target file as it was: absent if it was absent, its content unchanged if not.
C1_FailureLeavesTarget ==
    (pc \in PipCalled \cup {"interrupted"} /\ result # NoResult /\ result.returncode # 0)
        => FileAt(files, filepath) = FileAt(before, filepath)

\* C1's case: pip failed with text on its standard output, and a target that
\* existed before the run
C1_Witness ==
    /\ pc = "failed"
    /\ result.returncode # 0
    /\ result.stdout # <<>>
    /\ FileAt(before, filepath) = {PriorContent}
    /\ FileAt(files, filepath) = {PriorContent}

\* C6: a run that has the inputs of the run before it (environment,
\* interpreter, remove_versions, what pip did) ends with the target file as
\* that run left it.
C6_Idempotent ==
    (pc \in Finished /\ prev.valid /\ prev.inputs = Inputs)
        => FileAt(files, filepath) = prev.target

\* C6's case: a second run with the same inputs that wrote a non-empty listing
C6_Witness ==
    /\ pc = "saved"
    /\ prev.valid
    /\ prev.inputs = Inputs
    /\ filtered_output # <<>>
    /\ FileAt(files, filepath) = {filtered_output}

\* C7, as stated: an interrupted run leaves the files as they were, or leaves
\* a target that holds the whole processed listing.
C7_NeverPartial ==
    pc = "interrupted"
        => \/ files = before
           \/ /\ filtered_output # None
              /\ FileAt(files, filepath) = {filtered_output}

IsPrefix(s, t) == Len(s) <= Len(t) /\ SubSeq(t, 1, Len(s)) = s

\* the files other than the target are as they were when the run started
OthersUnchanged ==
    /\ DOMAIN files \ {filepath} = DOMAIN before \ {filepath}
    /\ \A n \in DOMAIN files \ {filepath} : files[n] = before[n]

\* C7, amended: a run interrupted before it opens the target leaves the files
\* as they were; one interrupted after the file is closed leaves the whole
\* processed listing; one interrupted between the open and the close leaves
\* the target truncated or partly written: it holds a leading part of the
\* processed listing, which may be empty.
C7_PrefixWhenInterrupted ==
    pc = "interrupted"
        => /\ at \in {"resolve", "mkdir", "pip", "filter", "open", "except"} => files = before
           /\ at \in {"write", "close"}
                 => /\ filepath \in DOMAIN files
                    /\ IsPrefix(files[filepath], filtered_output)
                    /\ OthersUnchanged
           /\ at = "print"
                 => /\ FileAt(files, filepath) = {filtered_output}
                    /\ OthersUnchanged

\* C7's case: interrupted between the write and the close with part of the
\* listing in the file
C7_Witness ==
    /\ pc = "interrupted"
    /\ at = "close"
    /\ Len(files[filepath]) > 0
    /\ Len(files[filepath]) < Len(filtered_output)

\* C8: when the pip child exits with a non-zero status, the line the run
\* prints contains the text of the child's standard error.
C8_DiagnosticHasStderr ==
    pc = "failed" => Contains(printed, result.stderr)

\* C9: after a successful run the target file holds exactly the processed
\* listing of the run, whatever it held before.
C9_TargetIsListing ==
    pc = "saved"
        => /\ FileAt(files, filepath) = {filtered_output}
           /\ OthersUnchanged

\* C9's case: the target held a longer text, and the new listing is empty
C9_Witness ==
    /\ pc = "saved"
    /\ FileAt(before, filepath) = {PriorContent}
    /\ filtered_output = <<>>
    /\ files[filepath] = <<>>

\* C10: once a run has reached its pip call the requirements directory
\* exists, also when the child fails and no file is written.
C10_DirBeforePip ==
    (pc \in {"pip"} \cup PipCalled \/ (pc = "interrupted" /\ at \in {"pip"} \cup PipCalled))
        => requirements_dir = "dir"

\* C10's case: a failed run that wrote no file and created the directory
C10_Witness ==
    /\ pc = "failed"
    /\ dir_before = "absent"
    /\ requirements_dir = "dir"
    /\ files = before

====
